---- MODULE Spec2Model ----
(***************************************************************************)
(* gboot: a firmware sender.  main validates its arguments and calls       *)
(* sendFirmware, which loads the image, computes its CRC-32, connects with *)
(* retry, writes a 4-byte size header, the image in chunks of BUFFER_SIZE  *)
(* bytes (one "ACK" read per chunk), the 4-byte checksum, and reads the    *)
(* final "CRC_OK" token.                                                   *)
(*                                                                         *)
(* Two variants of the program are modelled: src/gboot.go (1.1.0, fixed    *)
(* SERVER_IP) and src/unnamed/part_000 (1.2.0, destination address given   *)
(* on the command line and validated by isValidIP).                        *)
(*                                                                         *)
(* Bytes are integers 0..255.  Strings that the code compares byte by byte *)
(* (the tokens read from the connection) are sequences of ASCII codes; the *)
(* address argument is a sequence of one-character strings.                *)
(***************************************************************************)
EXTENDS Integers, Sequences, FiniteSets, TLC

\* ---------------------------------------------------------------- bounds

\* Images have up to MaxChunks full chunks (plus/minus one byte).
MaxChunks == 2

\* The destination refuses at most MaxDial connection attempts in one run.
MaxDial == 2

\* The short files of the checksum's own specification have up to MaxFileLen
\* bytes.
MaxFileLen == 3

\* Under SpecWrite the network fails at most MaxWriteErr writes in one run.
MaxWriteErr == 1

\* ------------------------------------------------------ program constants

BUFFER_SIZE == 256

SERVER_PORT == 5000

\* "ACK"
ACK_MSG == <<65, 67, 75>>

\* "CRC_OK"
CRC_OK_MSG == <<67, 82, 67, 95, 79, 75>>

\* time.Sleep(3 * time.Second)
RETRY_SECONDS == 3

\* SERVER_IP = "192.168.1.122" (variant 1.1.0)
SERVER_IP == <<"1","9","2",".","1","6","8",".","1",".","1","2","2">>

\* ------------------------------------------------------------ arithmetic

Min(a, b) == IF a < b THEN a ELSE b

\* Bitwise exclusive or of two naturals.
RECURSIVE Xor(_, _)
Xor(a, b) ==
    IF a = 0 THEN b
    ELSE IF b = 0 THEN a
    ELSE (((a % 2) + (b % 2)) % 2) + (2 * Xor(a \div 2, b \div 2))

\* A uint32 is kept as its two 16-bit halves <<high, low>>, since the model's
\* integers are narrower than 2^32.

\* uint32(n) for a non-negative int n
Uint32(n) == << (n \div 65536) % 65536, n % 65536 >>

\* a ^ b on uint32
Xor32(a, b) == << Xor(a[1], b[1]), Xor(a[2], b[2]) >>

\* ^x on a uint32
Not32(x) == << 65535 - x[1], 65535 - x[2] >>

\* x >> 1 and x >> 8 on a uint32
Shr1(x) == << x[1] \div 2, (x[2] \div 2) + ((x[1] % 2) * 32768) >>

Shr8(x) == << x[1] \div 256, (x[2] \div 256) + ((x[1] % 256) * 256) >>

\* The four bytes in the opposite order, least significant first.
PutUint32_littleEndian(v) ==
    << v[2] % 256, v[2] \div 256, v[1] % 256, v[1] \div 256 >>

\* binary.BigEndian.PutUint32(buf, v): the four bytes, most significant first
PutUint32(v) == << v[1] \div 256, v[1] % 256, v[2] \div 256, v[2] % 256 >>

\* The number a reader of four big-endian bytes gets back (small values only).
BigEndianValue(b) ==
    (b[1] * 16777216) + (b[2] * 65536) + (b[3] * 256) + b[4]

\* ------------------------------------------------- hash/crc32 (IEEE table)

\* crc32.IEEE, the reflected polynomial 0xedb88320
IEEE == << 60856, 33568 >>

RECURSIVE CrcBits(_, _)
CrcBits(c, n) ==
    IF n = 0 THEN c
    ELSE CrcBits(IF c[2] % 2 = 1 THEN Xor32(Shr1(c), IEEE) ELSE Shr1(c), n - 1)

\* crc32.IEEETable
IEEETable == [b \in 0..255 |-> CrcBits(<<0, b>>, 8)]

\* One step of the table-driven update: crc = tab[byte(crc)^b] ^ (crc >> 8)
CrcByte(c, b) == Xor32(IEEETable[Xor(c[2] % 256, b)], Shr8(c))

\* The update loop over p[lo..hi], split in halves to keep the recursion
\* shallow; the test on left only makes the first half be computed before the
\* second is entered (a uint32 half is never negative).
RECURSIVE CrcFold(_, _, _, _)
CrcFold(c, p, lo, hi) ==
    IF lo > hi THEN c
    ELSE IF lo = hi THEN CrcByte(c, p[lo])
    ELSE LET mid == (lo + hi) \div 2
             left == CrcFold(c, p, lo, mid)
         IN  IF left[2] >= 0 THEN CrcFold(left, p, mid + 1, hi) ELSE left

\* digest.Write(p): the digest's crc after absorbing the bytes p
CrcUpdate(crc, p) == Not32(CrcFold(Not32(crc), p, 1, Len(p)))

\* crc32.ChecksumIEEE(p): the checksum of p fed in one piece
ChecksumIEEE(p) == CrcUpdate(<<0, 0>>, p)

\* ------------------------------------------------ regexp of isValidIP

Digits == {"0", "1", "2", "3", "4", "5", "6", "7", "8", "9"}

\* Whether s has a character at position i that lies in the class cls.
Has(s, i, cls) == i <= Len(s) /\ s[i] \in cls

\* (25[0-5]|2[0-4][0-9]|[01]?[0-9][0-9]?) : the positions right after a match
\* of the alternation that starts at position i (every way of matching, as
\* the regexp engine explores them).
OctetEnds(s, i) ==
    LET alt1 == IF Has(s, i, {"2"}) /\ Has(s, i + 1, {"5"})
                   /\ Has(s, i + 2, {"0", "1", "2", "3", "4", "5"})
                THEN {i + 3} ELSE {}
        alt2 == IF Has(s, i, {"2"}) /\ Has(s, i + 1, {"0", "1", "2", "3", "4"})
                   /\ Has(s, i + 2, Digits)
                THEN {i + 3} ELSE {}
        starts == {i} \cup (IF Has(s, i, {"0", "1"}) THEN {i + 1} ELSE {})
        alt3 == UNION {IF Has(s, j, Digits)
                       THEN {j + 1} \cup (IF Has(s, j + 1, Digits) THEN {j + 2} ELSE {})
                       ELSE {} : j \in starts}
    IN  alt1 \cup alt2 \cup alt3

\* (octet\.) : the positions right after one group that starts at i
GroupEnds(s, i) == {j + 1 : j \in {e \in OctetEnds(s, i) : Has(s, e, {"."})}}

\* (octet\.){n} started at any position of the set from
RECURSIVE GroupRepeat(_, _, _)
GroupRepeat(s, from, n) ==
    IF n = 0 THEN from
    ELSE GroupRepeat(s, UNION {GroupEnds(s, i) : i \in from}, n - 1)

\* A regexp with the range alternatives dropped: ^([0-9]{1,3}\.){3}[0-9]{1,3}$
RECURSIVE LooseMatch(_, _, _)
LooseMatch(s, i, n) ==
    \E k \in 1..3 :
        /\ \A j \in i..(i + k - 1) : Has(s, j, Digits)
        /\ IF n = 1 THEN i + k = Len(s) + 1
           ELSE Has(s, i + k, {"."}) /\ LooseMatch(s, i + k + 1, n - 1)

isValidIP_anyDigits(ip) == LooseMatch(ip, 1, 4)

\* re.MatchString(ip) for ^((octet)\.){3}(octet)$ : anchored at both ends
isValidIP(ip) ==
    \E i \in GroupRepeat(ip, {1}, 3) : (Len(ip) + 1) \in OctetEnds(ip, i)

\* ---------------------------------------------------------------- inputs

DigitChar == <<"0", "1", "2", "3", "4", "5", "6", "7", "8", "9">>

\* The decimal numeral of n, without leading zeros.
RECURSIVE Dec(_)
Dec(n) == IF n < 10 THEN <<DigitChar[n + 1]>>
          ELSE Dec(n \div 10) \o <<DigitChar[(n % 10) + 1]>>

\* The fields joined by dots.
RECURSIVE Join(_)
Join(fields) ==
    IF Len(fields) = 0 THEN <<>>
    ELSE IF Len(fields) = 1 THEN fields[1]
    ELSE fields[1] \o <<".">> \o Join(Tail(fields))

BaseFields == <<Dec(192), Dec(168), Dec(1), Dec(122)>>

\* Fields of one to three digits with a value of at most 255.
GoodFields ==
    {Dec(0), Dec(99), Dec(255), <<"0">> \o Dec(7), <<"0", "0">> \o Dec(0),
     Dec(249)}

\* Fields that are out of range, empty, too long or not decimal.
BadFields ==
    {Dec(256), Dec(260), Dec(300), Dec(999), Dec(1000), <<>>, <<"1", "a">>,
     <<"-", "1">>, <<"0", "0", "0">> \o Dec(1), <<" ">> \o Dec(1)}

\* Address arguments: the base address with one field replaced, and
\* addresses with the wrong number of fields or stray characters.
AddrInputs ==
    {Join([BaseFields EXCEPT ![p] = f]) : p \in {1, 4}, f \in GoodFields}
    \cup {Join([BaseFields EXCEPT ![p] = f]) : p \in 1..4, f \in BadFields}
    \cup {Join(<<Dec(1), Dec(2), Dec(3)>>),
          Join(<<Dec(1), Dec(2), Dec(3), Dec(4), Dec(5)>>),
          Join(<<Dec(999), Dec(1), Dec(1), Dec(1)>>),
          Join(BaseFields) \o <<".">>,
          <<".">> \o Join(BaseFields),
          Join(BaseFields) \o <<"\n">>,
          Dec(1) \o <<",">> \o Dec(2) \o <<",">> \o Dec(3) \o <<",">> \o Dec(4),
          <<>>}

\* os.Args: argc is len(os.Args); arg1 and arg2 are os.Args[1] and os.Args[2]
\* when present.
NoArgs == [argc |-> 1, arg1 |-> "", arg2 |-> <<>>]

OneArg(a) == [argc |-> 2, arg1 |-> a, arg2 |-> <<>>]

TwoArgs(a, b) == [argc |-> 3, arg1 |-> a, arg2 |-> b]

ArgInputs(v) ==
    {NoArgs, OneArg("version"), OneArg("-v"), OneArg("fw.bin")}
    \cup IF v = "1.2.0"
         THEN {TwoArgs("fw.bin", ip) : ip \in AddrInputs}
              \cup {TwoArgs("version", Join(BaseFields))}
         ELSE {TwoArgs("fw.bin", Join(BaseFields))}

\* Image sizes: empty, one byte, and around each multiple of the chunk size.
Sizes == {0, 1} \cup {(k * BUFFER_SIZE) + d : k \in 1..MaxChunks, d \in {-1, 0, 1}}

\* An image whose bytes differ from chunk to chunk (the period 251 is prime
\* to the chunk size).
Image(n) == [k \in 1..n |-> (k - 1) % 251]

\* The firmware file on disk: absent, or one of the images.
FileInputs ==
    {[exists |-> FALSE, data |-> <<>>]}
    \cup {[exists |-> TRUE, data |-> Image(n)] : n \in Sizes}

\* The byte sequences of length n over the bytes 0, 1 and 255.
RECURSIVE ByteSeqs(_)
ByteSeqs(n) ==
    IF n = 0 THEN {<<>>}
    ELSE {s \o <<b>> : s \in ByteSeqs(n - 1), b \in {0, 1, 255}}

\* Files for the checksum alone: every short content, and one image longer
\* than the read buffer.
CrcFileInputs ==
    {[exists |-> TRUE, data |-> d] : d \in UNION {ByteSeqs(n) : n \in 0..MaxFileLen}}
    \cup {[exists |-> TRUE, data |-> Image(BUFFER_SIZE + 1)]}

\* What the peer may send while the program waits in the read of an
\* acknowledgment: the token, three other bytes ("ACX", "NAK", "CRC"), the
\* token and one byte more ("ACKX"), the token short of a byte with the next
\* token behind it ("ACACK"), or fewer than three bytes before the stream
\* ends or errors.
AckReplies ==
    {ACK_MSG, <<65, 67, 88>>, <<78, 65, 75>>, <<67, 82, 67>>,
     <<65, 67, 75, 88>>, <<65, 67, 65, 67, 75>>, <<65, 67>>, <<>>}

\* What the peer may send while the program waits in the read of the
\* verification token: the token, six other bytes ("CRC_KO", "CRC_ER",
\* "ACKACK"), the token and one byte more ("CRC_OKX"), or fewer than six
\* bytes before the stream ends or errors.
VerifyReplies ==
    {CRC_OK_MSG, <<67, 82, 67, 95, 75, 79>>, <<67, 82, 67, 95, 69, 82>>,
     <<65, 67, 75, 65, 67, 75>>, <<67, 82, 67, 95, 79, 75, 88>>,
     <<67, 82, 67, 95, 79>>, <<>>}

\* ----------------------------------------------------------------- state

VARIABLES
    variant,        \* VERSION of the program that runs: "1.1.0" or "1.2.0"
    args,           \* os.Args
    fs,             \* the firmware file on disk
    pc,             \* where the program is
    exitCode,       \* the process's exit status, read when pc = "exit"
    serverIP,       \* the address sendFirmware dials
    firmwareData,   \* sendFirmware's firmwareData
    firmwareSize,   \* sendFirmware's firmwareSize
    firmwareCRC32,  \* sendFirmware's firmwareCRC32
    hash,           \* calculateCRC32's digest
    fpos,           \* calculateCRC32's position in the open file
    conn,           \* the connection: "nil", "open" or "closed"
    deferred,       \* whether defer conn.Close() has been registered
    i,              \* the chunk loop's offset
    chunk,          \* the chunk written last
    sentBytes,      \* sendFirmware's sentBytes (the progress bar's count)
    inbound,        \* the bytes the peer has sent on the connection, in order
    rpos,           \* how many bytes of inbound the program has consumed
    netFaults,      \* how many writes the network may still fail in this run
    log             \* every effect on the outside so far, in order

vars == <<variant, args, fs, pc, exitCode, serverIP, firmwareData, firmwareSize,
          firmwareCRC32, hash, fpos, conn, deferred, i, chunk, sentBytes,
          inbound, rpos, netFaults, log>>

\* One effect: a print, a file or socket call, a sleep or the exit.
Ev(op, tag, n, data) == [op |-> op, tag |-> tag, n |-> n, data |-> data]

Say(msg) == Ev("print", msg, 0, <<>>)

\* The program's own variables before main runs.
InitProgram ==
    /\ pc = "main"
    /\ exitCode = 0
    /\ serverIP = <<>>
    /\ firmwareData = <<>>
    /\ firmwareSize = 0
    /\ firmwareCRC32 = <<0, 0>>
    /\ hash = <<0, 0>>
    /\ fpos = 0
    /\ conn = "nil"
    /\ deferred = FALSE
    /\ i = 0
    /\ chunk = <<>>
    /\ sentBytes = 0
    /\ inbound = <<>>
    /\ rpos = 0
    /\ log = <<>>

Init ==
    /\ variant \in {"1.1.0", "1.2.0"}
    /\ args \in ArgInputs(variant)
    /\ fs \in FileInputs
    /\ netFaults = 0
    /\ InitProgram

\* ------------------------------------------------------------------ main

\* main up to the call of sendFirmware: the usage, version and address
\* checks.  os.Exit(1) ends the process at once; a return from main ends it
\* with status 0.
Main ==
    /\ pc = "main"
    /\ LET usage == args.argc < 2
           version == ~usage /\ args.arg1 \in {"version", "-v"}
           short == variant = "1.2.0" /\ ~usage /\ ~version /\ args.argc < 3
           badIP == variant = "1.2.0" /\ ~usage /\ ~version /\ ~short
                    /\ ~isValidIP(args.arg2)
       IN  IF usage \/ short
           THEN /\ log' = log \o <<Say("usage"), Ev("exit", "os.Exit", 1, <<>>)>>
                /\ exitCode' = 1
                /\ pc' = "exit"
                /\ UNCHANGED serverIP
           ELSE IF version
           THEN /\ log' = log \o <<Say("version"), Ev("exit", "return", 0, <<>>)>>
                /\ exitCode' = 0
                /\ pc' = "exit"
                /\ UNCHANGED serverIP
           ELSE IF badIP
           THEN /\ log' = log \o <<Say("invalidIP"), Ev("exit", "os.Exit", 1, <<>>)>>
                /\ exitCode' = 1
                /\ pc' = "exit"
                /\ UNCHANGED serverIP
           ELSE /\ serverIP' = IF variant = "1.2.0" THEN args.arg2 ELSE SERVER_IP
                /\ pc' = "readFile"
                /\ UNCHANGED <<log, exitCode>>
    /\ UNCHANGED <<variant, args, fs, firmwareData, firmwareSize, firmwareCRC32,
                   hash, fpos, conn, deferred, i, chunk, sentBytes>>
    /\ UNCHANGED <<inbound, rpos, netFaults>>

\* ---------------------------------------------------------- sendFirmware

\* if err != nil { ...; return } after os.ReadFile
AfterReadFile(err) == IF err THEN "return" ELSE "crcOpen"

\* os.ReadFile(firmwareFile) and the check of its error
ReadFile ==
    /\ pc = "readFile"
    /\ LET err == ~fs.exists
       IN  /\ pc' = AfterReadFile(err)
           /\ IF err
              THEN /\ log' = log \o <<Ev("readfile", "err", 0, <<>>), Say("notFound")>>
                   /\ UNCHANGED <<firmwareData, firmwareSize>>
              ELSE /\ log' = log \o <<Ev("readfile", "ok", Len(fs.data), <<>>),
                                      Say("sending")>>
                   /\ firmwareData' = fs.data
                   /\ firmwareSize' = Len(fs.data)
    /\ UNCHANGED <<variant, args, fs, exitCode, serverIP, firmwareCRC32, hash,
                   fpos, conn, deferred, i, chunk, sentBytes>>
    /\ UNCHANGED <<inbound, rpos, netFaults>>

\* A missing return after the checksum error: the transfer goes on.
AfterCRC_noReturn(err) == "dial"

\* if err != nil { ...; return } after calculateCRC32
AfterCRC(err) == IF err THEN "return" ELSE "dial"

\* calculateCRC32: os.Open and crc32.NewIEEE.  The open may fail although
\* os.ReadFile succeeded (the file is opened a second time).
CrcOpen ==
    /\ pc = "crcOpen"
    /\ \E ok \in BOOLEAN :
         IF ok
         THEN /\ log' = log \o <<Ev("open", "ok", 0, <<>>)>>
              /\ hash' = <<0, 0>>
              /\ fpos' = 0
              /\ pc' = "crcRead"
         ELSE /\ log' = log \o <<Ev("open", "err", 0, <<>>), Say("crcError")>>
              /\ pc' = AfterCRC(TRUE)
              /\ UNCHANGED <<hash, fpos>>
    /\ UNCHANGED <<variant, args, fs, exitCode, serverIP, firmwareData,
                   firmwareSize, firmwareCRC32, conn, deferred, i, chunk, sentBytes>>
    /\ UNCHANGED <<inbound, rpos, netFaults>>

\* calculateCRC32: one turn of the read loop.  file.Read fills the buffer
\* with the next block, reports io.EOF at the end of the file, or fails.
CrcRead ==
    /\ pc = "crcRead"
    /\ LET bytesRead == Min(BUFFER_SIZE, Len(fs.data) - fpos)
       IN  \E ioError \in BOOLEAN :
             IF ioError
             THEN /\ log' = log \o <<Ev("fread", "err", 0, <<>>),
                                     Ev("fclose", "", 0, <<>>), Say("crcError")>>
                  /\ pc' = AfterCRC(TRUE)
                  /\ UNCHANGED <<hash, fpos, firmwareCRC32>>
             ELSE IF bytesRead > 0
             THEN /\ log' = log \o <<Ev("fread", "ok", bytesRead, <<>>)>>
                  /\ hash' = CrcUpdate(hash, SubSeq(fs.data, fpos + 1, fpos + bytesRead))
                  /\ fpos' = fpos + bytesRead
                  /\ pc' = "crcRead"
                  /\ UNCHANGED firmwareCRC32
             ELSE /\ log' = log \o <<Ev("fread", "EOF", 0, <<>>),
                                     Ev("fclose", "", 0, <<>>), Say("computed")>>
                  /\ firmwareCRC32' = hash
                  /\ pc' = AfterCRC(FALSE)
                  /\ UNCHANGED <<hash, fpos>>
    /\ UNCHANGED <<variant, args, fs, exitCode, serverIP, firmwareData,
                   firmwareSize, conn, deferred, i, chunk, sentBytes>>
    /\ UNCHANGED <<inbound, rpos, netFaults>>

\* The sizes a read may deliver when rem bytes of the file are left: a few
\* bytes, a full or nearly full buffer, or all that is left.
ReadSizes(rem) ==
    {n \in {1, 2, 3, BUFFER_SIZE - 1, BUFFER_SIZE, rem} :
        n >= 1 /\ n <= Min(BUFFER_SIZE, rem)}

\* A loop that tests for io.EOF before it hashes the bytes of the read.
Absorbs_eofFirst(bytesRead, eof) == bytesRead > 0 /\ ~eof

\* if bytesRead > 0 { hash.Write(buffer[:bytesRead]) }, which comes before
\* the test for io.EOF
Absorbs(bytesRead, eof) == bytesRead > 0

\* calculateCRC32: one turn of the read loop with any reader the io.Reader
\* contract allows: file.Read delivers between 1 and len(buffer) of the bytes
\* left, possibly together with io.EOF when they are the last; or no bytes
\* with io.EOF at the end of the file; or an error.  The reads that go on are
\* not recorded in log, so that runs that split the file differently meet
\* again; the last read is.
CrcReadAny ==
    /\ pc = "crcRead"
    /\ LET rem == Len(fs.data) - fpos
       IN  \E bytesRead \in ReadSizes(rem) \cup {0}, res \in {"nil", "EOF", "err"} :
             /\ res = "nil" => bytesRead > 0
             /\ res = "EOF" => bytesRead = rem
             /\ res = "err" => bytesRead = 0
             /\ LET block == SubSeq(fs.data, fpos + 1, fpos + bytesRead)
                    h == IF Absorbs(bytesRead, res = "EOF")
                         THEN CrcUpdate(hash, block) ELSE hash
                IN  IF res = "err"
                    THEN /\ log' = log \o <<Ev("fread", "err", 0, <<>>),
                                            Ev("fclose", "", 0, <<>>), Say("crcError")>>
                         /\ pc' = AfterCRC(TRUE)
                         /\ UNCHANGED <<hash, fpos, firmwareCRC32>>
                    ELSE IF res = "nil"
                    THEN /\ hash' = h
                         /\ fpos' = fpos + bytesRead
                         /\ pc' = "crcRead"
                         /\ UNCHANGED <<log, firmwareCRC32>>
                    ELSE /\ log' = log \o <<Ev("fread", "EOF", bytesRead, <<>>),
                                            Ev("fclose", "", 0, <<>>), Say("computed")>>
                         /\ hash' = h
                         /\ fpos' = fpos + bytesRead
                         /\ firmwareCRC32' = h
                         /\ pc' = AfterCRC(FALSE)
    /\ UNCHANGED <<variant, args, fs, exitCode, serverIP, firmwareData,
                   firmwareSize, conn, deferred, i, chunk, sentBytes>>
    /\ UNCHANGED <<inbound, rpos, netFaults>>

\* A retry without the backoff wait.
AfterDial_noSleep(ok) == IF ok THEN "writeSize" ELSE "dial"

\* A connect failure treated as fatal.
AfterDial_giveUp(ok) == IF ok THEN "writeSize" ELSE "return"

\* The connect loop's branch: break on success, else sleep and try again.
AfterDial(ok) == IF ok THEN "writeSize" ELSE "sleep"

\* How many connection attempts were refused so far.
Refused == Len(SelectSeq(log, LAMBDA e : e.op = "dial" /\ e.tag = "refused"))

\* net.Dial and the check of its error; on success defer conn.Close().
Dial ==
    /\ pc = "dial"
    /\ \E ok \in BOOLEAN :
         /\ ok \/ Refused < MaxDial
         /\ pc' = AfterDial(ok)
         /\ IF ok
            THEN /\ log' = log \o <<Ev("dial", "ok", SERVER_PORT, serverIP),
                                    Say("connected")>>
                 /\ conn' = "open"
                 /\ deferred' = TRUE
            ELSE /\ log' = log \o <<Ev("dial", "refused", SERVER_PORT, serverIP),
                                    Say("connFailed")>>
                 /\ UNCHANGED <<conn, deferred>>
    /\ UNCHANGED <<variant, args, fs, exitCode, serverIP, firmwareData,
                   firmwareSize, firmwareCRC32, hash, fpos, i, chunk, sentBytes>>
    /\ UNCHANGED <<inbound, rpos, netFaults>>

\* time.Sleep(3 * time.Second), then the loop's next turn
Sleep ==
    /\ pc = "sleep"
    /\ log' = log \o <<Ev("sleep", "", RETRY_SECONDS, <<>>)>>
    /\ pc' = "dial"
    /\ UNCHANGED <<variant, args, fs, exitCode, serverIP, firmwareData,
                   firmwareSize, firmwareCRC32, hash, fpos, conn, deferred, i,
                   chunk, sentBytes>>
    /\ UNCHANGED <<inbound, rpos, netFaults>>

\* The byte counts conn.Write(p) may return: len(p) with a nil error, or,
\* when the network fails the write, fewer with an error.
WriteCounts(p, faults) ==
    {Len(p)} \cup (IF faults > 0 THEN {0, Len(p) - 1} ELSE {})

\* The faults left after a write of p returned n.
FaultsLeft(faults, p, n) == IF n < Len(p) THEN faults - 1 ELSE faults

\* The size header, the progress bar and the chunk loop's initialisation.
\* Neither result of conn.Write is looked at.
WriteSize ==
    /\ pc = "writeSize"
    /\ LET sizeBuffer == PutUint32(Uint32(firmwareSize))
       IN  \E n \in WriteCounts(sizeBuffer, netFaults) :
             /\ log' = log \o <<Ev("write", "size", n, sizeBuffer)>>
             /\ netFaults' = FaultsLeft(netFaults, sizeBuffer, n)
    /\ sentBytes' = 0
    /\ i' = 0
    /\ pc' = "loop"
    /\ UNCHANGED <<variant, args, fs, exitCode, serverIP, firmwareData,
                   firmwareSize, firmwareCRC32, hash, fpos, conn, deferred, chunk>>
    /\ UNCHANGED <<inbound, rpos>>

\* A loop that stops one chunk early.
LoopCond_early(off, size) == off + BUFFER_SIZE < size

\* A loop that runs its body once before it tests (do ... while).
LoopCond_atLeastOnce(off, size) == off < size \/ off = 0

\* The chunk loop's condition: i < firmwareSize
LoopCond(off, size) == off < size

\* A clamp that is off by one.
ChunkEnd_offByOne(off, size) ==
    IF off + BUFFER_SIZE >= size THEN size - 1 ELSE off + BUFFER_SIZE

\* end := i + BUFFER_SIZE, clamped to firmwareSize
ChunkEnd(off, size) ==
    IF off + BUFFER_SIZE > size THEN size ELSE off + BUFFER_SIZE

\* firmwareData[i:end] and its write
SendChunk ==
    /\ pc = "loop"
    /\ LoopCond(i, firmwareSize)
    /\ LET end == ChunkEnd(i, firmwareSize)
           c == SubSeq(firmwareData, i + 1, end)
       IN  /\ chunk' = c
           /\ \E n \in WriteCounts(c, netFaults) :
                /\ log' = log \o <<Ev("write", "chunk", n, c)>>
                /\ netFaults' = FaultsLeft(netFaults, c, n)
    /\ pc' = "readAck"
    /\ UNCHANGED <<variant, args, fs, exitCode, serverIP, firmwareData,
                   firmwareSize, firmwareCRC32, hash, fpos, conn, deferred, i,
                   sentBytes>>
    /\ UNCHANGED <<inbound, rpos>>

\* io.ReadFull(conn, buf) with len(buf) = n when the peer delivers the bytes
\* got: the buffer (zeroed by make, filled from the front) and whether an
\* error is returned (fewer than n bytes arrived).
ReadFullBuf(got, n) == [k \in 1..n |-> IF k <= Len(got) THEN got[k] ELSE 0]

ReadFullErr(got, n) == Len(got) < n

\* A read that takes everything that has arrived.
ReadAmount_drain(n, avail) == avail

\* How many bytes io.ReadFull takes from the stream when avail bytes arrive
\* before it ends: len(buf) of them, or all if there are fewer.
ReadAmount(n, avail) == Min(n, avail)

\* The bytes io.ReadFull copies into a buffer of n bytes from the stream at
\* offset pos.
ReadFullGot(stream, pos, n) ==
    SubSeq(stream, pos + 1, pos + Min(n, Len(stream) - pos))

\* An acknowledgment check that ignores the bytes read.
AckAccepted_noCompare(err, buf) == ~err

\* An acknowledgment check that looks at the first byte only.
AckAccepted_firstByte(err, buf) == ~err /\ buf[1] = ACK_MSG[1]

\* The negation of: err != nil || string(ackBuffer) != ACK_MSG
AckAccepted(err, buf) == ~(err \/ buf # ACK_MSG)

\* A count that adds a full block for every chunk.
AddProgress_fullBlock(sent, c) == sent + BUFFER_SIZE

\* sentBytes += len(chunk)
AddProgress(sent, c) == sent + Len(c)

\* A loop whose offset does not advance.
NextOffset_stuck(off) == off

\* The chunk loop's step: i += BUFFER_SIZE
NextOffset(off) == off + BUFFER_SIZE

\* The read of the acknowledgment and the loop's step.
ReadAck ==
    /\ pc = "readAck"
    /\ \E more \in AckReplies :
         LET n == Len(ACK_MSG)
             stream == inbound \o more
             got == ReadFullGot(stream, rpos, n)
             ackBuffer == ReadFullBuf(got, n)
             err == ReadFullErr(got, n)
         IN  /\ inbound' = stream
             /\ rpos' = rpos + ReadAmount(n, Len(stream) - rpos)
             /\ IF AckAccepted(err, ackBuffer)
                THEN /\ log' = log \o <<Ev("read", "ack", n, got)>>
                     /\ sentBytes' = AddProgress(sentBytes, chunk)
                     /\ i' = NextOffset(i)
                     /\ pc' = "loop"
                ELSE /\ log' = log \o <<Ev("read", "ack", n, got), Say("txFailed")>>
                     /\ pc' = "return"
                     /\ UNCHANGED <<sentBytes, i>>
    /\ UNCHANGED <<variant, args, fs, exitCode, serverIP, firmwareData,
                   firmwareSize, firmwareCRC32, hash, fpos, conn, deferred, chunk>>
    /\ UNCHANGED netFaults

\* The checksum's write, after the loop.
SendCRC ==
    /\ pc = "loop"
    /\ ~LoopCond(i, firmwareSize)
    /\ LET crcBuffer == PutUint32(firmwareCRC32)
       IN  \E n \in WriteCounts(crcBuffer, netFaults) :
             /\ log' = log \o <<Ev("write", "crc", n, crcBuffer),
                                 Say("uploadCompleted")>>
             /\ netFaults' = FaultsLeft(netFaults, crcBuffer, n)
    /\ pc' = "readVerify"
    /\ UNCHANGED <<variant, args, fs, exitCode, serverIP, firmwareData,
                   firmwareSize, firmwareCRC32, hash, fpos, conn, deferred, i,
                   chunk, sentBytes>>
    /\ UNCHANGED <<inbound, rpos>>

\* A verification that accepts any six bytes.
Verified_noCompare(err, buf) == ~err

\* A verification that compares only the first three bytes.
Verified_prefix(err, buf) == ~err /\ SubSeq(buf, 1, 3) = SubSeq(CRC_OK_MSG, 1, 3)

\* The negation of: err != nil || string(crcResponse) != CRC_OK_MSG
Verified(err, buf) == ~(err \/ buf # CRC_OK_MSG)

\* The read of the verification token and the report.
ReadVerify ==
    /\ pc = "readVerify"
    /\ \E more \in VerifyReplies :
         LET n == Len(CRC_OK_MSG)
             stream == inbound \o more
             got == ReadFullGot(stream, rpos, n)
             crcResponse == ReadFullBuf(got, n)
             err == ReadFullErr(got, n)
         IN  /\ inbound' = stream
             /\ rpos' = rpos + ReadAmount(n, Len(stream) - rpos)
             /\ log' = log \o <<Ev("read", "verify", n, got),
                                 IF Verified(err, crcResponse)
                                 THEN Say("success") ELSE Say("crcFailed")>>
    /\ pc' = "return"
    /\ UNCHANGED <<variant, args, fs, exitCode, serverIP, firmwareData,
                   firmwareSize, firmwareCRC32, hash, fpos, conn, deferred, i,
                   chunk, sentBytes>>
    /\ UNCHANGED netFaults

\* A return that runs no deferred call.
DeferredCalls_none(registered) == <<>>

\* A close on the failure path besides the deferred one.
DeferredCalls_twice(registered) ==
    IF registered THEN <<Ev("close", "", 0, <<>>), Ev("close", "", 0, <<>>)>> ELSE <<>>

\* The deferred calls a return from sendFirmware runs: conn.Close(), once
\* the defer statement was reached.
DeferredCalls(registered) ==
    IF registered THEN <<Ev("close", "", 0, <<>>)>> ELSE <<>>

\* sendFirmware returns: its deferred calls run, then main returns and the
\* process exits with status 0.
Return ==
    /\ pc = "return"
    /\ LET calls == DeferredCalls(deferred)
       IN  /\ log' = log \o calls \o <<Ev("exit", "return", 0, <<>>)>>
           /\ conn' = IF Len(calls) > 0 THEN "closed" ELSE conn
    /\ exitCode' = 0
    /\ pc' = "exit"
    /\ UNCHANGED <<variant, args, fs, serverIP, firmwareData, firmwareSize,
                   firmwareCRC32, hash, fpos, deferred, i, chunk, sentBytes>>
    /\ UNCHANGED <<inbound, rpos, netFaults>>

Next ==
    \/ Main
    \/ ReadFile
    \/ CrcOpen
    \/ CrcRead
    \/ Dial
    \/ Sleep
    \/ WriteSize
    \/ SendChunk
    \/ ReadAck
    \/ SendCRC
    \/ ReadVerify
    \/ Return

Spec == Init /\ [][Next]_vars

\* The run up to the return of calculateCRC32, on one file, with any reader.
InitCRC ==
    /\ variant = "1.1.0"
    /\ args = OneArg("fw.bin")
    /\ fs \in CrcFileInputs
    /\ netFaults = 0
    /\ InitProgram

NextCRC ==
    \/ Main
    \/ ReadFile
    \/ CrcOpen
    \/ CrcReadAny

SpecCRC == InitCRC /\ [][NextCRC]_vars

\* What another process may leave in the file when it writes to it: the
\* first byte changed, a byte appended, or nothing.
Rewritten(d) ==
    {d \o <<255>>, <<>>}
    \cup (IF Len(d) > 0 THEN {[d EXCEPT ![1] = (d[1] + 1) % 256]} ELSE {})

\* Another process rewrites the firmware file after os.ReadFile has returned
\* and before calculateCRC32 opens the file again.
ModifyFile ==
    /\ pc = "crcOpen"
    /\ fs.data = firmwareData
    /\ \E d \in Rewritten(fs.data) \ {fs.data} :
         fs' = [exists |-> TRUE, data |-> d]
    /\ UNCHANGED <<variant, args, pc, exitCode, serverIP, firmwareData,
                   firmwareSize, firmwareCRC32, hash, fpos, conn, deferred, i,
                   chunk, sentBytes, inbound, rpos, netFaults, log>>

\* One invocation of version 1.1.0 on a file that exists, with another
\* process that may rewrite the file once between the two reads.
InitRace ==
    /\ variant = "1.1.0"
    /\ args = OneArg("fw.bin")
    /\ fs \in {f \in FileInputs : f.exists}
    /\ netFaults = 0
    /\ InitProgram

NextRace ==
    \/ Next
    \/ ModifyFile

SpecRace == InitRace /\ [][NextRace]_vars

\* One invocation of version 1.1.0 on a file that exists, over a network
\* that fails up to MaxWriteErr writes.
InitWrite ==
    /\ variant = "1.1.0"
    /\ args = OneArg("fw.bin")
    /\ fs \in {f \in FileInputs : f.exists}
    /\ netFaults = MaxWriteErr
    /\ InitProgram

SpecWrite == InitWrite /\ [][Next]_vars

\* The steps sendFirmware takes by itself from the connect loop on, and the
\* steps in which a blocking read on the connection returns.
ConnectionStep ==
    \/ Dial
    \/ Sleep
    \/ WriteSize
    \/ SendChunk
    \/ SendCRC
    \/ Return

ReadReturns ==
    \/ ReadAck
    \/ ReadVerify

\* The runs in which sendFirmware, once at the connect loop, keeps running
\* (one flow of control, no call but the reads waits on the peer; Dial is
\* refused at most MaxDial times) and every read on the connection returns
\* in the end.
LiveSpec == Spec /\ WF_vars(ConnectionStep) /\ WF_vars(ReadReturns)

\* ------------------------------------------------- reading the effects

\* The positions of log whose effect satisfies P.
Pos(P(_)) == {k \in DOMAIN log : P(log[k])}

Printed(msg) == \E k \in DOMAIN log : log[k].op = "print" /\ log[k].tag = msg

IsWrite(e) == e.op = "write"

IsChunkWrite(e) == e.op = "write" /\ e.tag = "chunk"

IsCrcWrite(e) == e.op = "write" /\ e.tag = "crc"

IsAckRead(e) == e.op = "read" /\ e.tag = "ack"

IsVerifyRead(e) == e.op = "read" /\ e.tag = "verify"

IsDial(e) == e.op = "dial"

IsDialOk(e) == e.op = "dial" /\ e.tag = "ok"

IsRefusal(e) == e.op = "dial" /\ e.tag = "refused"

IsSleep(e) == e.op = "sleep"

IsClose(e) == e.op = "close"

\* Any use of the network: a connection attempt or a call on the connection.
IsNetwork(e) == e.op \in {"dial", "write", "read", "close"}

\* The writes, the chunk writes and the acknowledgment reads, in order.
Writes == SelectSeq(log, IsWrite)

ChunkWrites == SelectSeq(log, IsChunkWrite)

AckReads == SelectSeq(log, IsAckRead)

\* The payloads of the chunk writes one after the other.
RECURSIVE Concat(_)
Concat(ws) == IF Len(ws) = 0 THEN <<>> ELSE ws[1].data \o Concat(Tail(ws))

RECURSIVE TotalLen(_)
TotalLen(ws) == IF Len(ws) = 0 THEN 0 ELSE Len(ws[1].data) + TotalLen(Tail(ws))

\* ceil(S / BUFFER_SIZE)
NumChunks(S) == (S + BUFFER_SIZE - 1) \div BUFFER_SIZE

\* The reported outcomes.
Success == Printed("success")

TransmissionFailure == Printed("txFailed")

ChecksumFailure == Printed("crcFailed")

InputStageError == Printed("notFound") \/ Printed("crcError")

Terminal == pc = "exit"

\* ---------------------------------------------------------------- claims

\* C1: when the read after a chunk's write fails or returns three bytes
\* other than "ACK", nothing more happens on the network but the close: no
\* later write (chunk or checksum), no later read, no new connection attempt;
\* the report is transmission failure, neither success nor
\* checksum-verification failure; and the run ends with the connection closed.
C1_BadAckStopsTransfer ==
    \A k \in Pos(IsAckRead) :
        log[k].data # ACK_MSG =>
            /\ \A j \in DOMAIN log :
                   j > k => log[j].op \notin {"write", "read", "dial", "sleep"}
            /\ Len(log) > k /\ log[k + 1] = Say("txFailed")
            /\ TransmissionFailure /\ ~Success /\ ~ChecksumFailure
            /\ pc \in {"return", "exit"}
            /\ Terminal => conn = "closed" /\ Len(log) > k + 1 /\ log[k + 2].op = "close"

\* A run that ended after the second chunk's read returned "ACX".
C1_Witness ==
    /\ Terminal
    /\ Len(AckReads) = 2
    /\ AckReads[1].data = ACK_MSG
    /\ AckReads[2].data = <<65, 67, 88>>
    /\ firmwareSize > 2 * BUFFER_SIZE

\* C2: when every chunk was acknowledged and the final 6-byte read fails or
\* is not "CRC_OK", the report is checksum-verification failure (not
\* transmission failure, not success); by then the chunks written make up the
\* whole image and the 4-byte checksum was written after them; the run ends
\* with the connection closed.
C2_BadVerifyReported ==
    \A k \in Pos(IsVerifyRead) :
        log[k].data # CRC_OK_MSG =>
            /\ Len(log) > k /\ log[k + 1] = Say("crcFailed")
            /\ ChecksumFailure /\ ~Success /\ ~TransmissionFailure
            /\ Concat(ChunkWrites) = firmwareData
            /\ \A a \in DOMAIN AckReads : AckReads[a].data = ACK_MSG
            /\ Len(AckReads) = Len(ChunkWrites)
            /\ \E c \in Pos(IsCrcWrite) :
                   /\ c < k
                   /\ Len(log[c].data) = 4
                   /\ log[c].data = PutUint32(firmwareCRC32)
                   /\ \A w \in Pos(IsChunkWrite) : w < c
            /\ pc \in {"return", "exit"}
            /\ Terminal => conn = "closed" /\ Len(log) > k + 1 /\ log[k + 2].op = "close"

\* A run of three chunks that ended after the final read returned "CRC_KO".
C2_Witness ==
    /\ Terminal
    /\ Len(ChunkWrites) = 3
    /\ \E k \in Pos(IsVerifyRead) : log[k].data = <<67, 82, 67, 95, 75, 79>>

\* Whether sendFirmware was entered (its first statement reads the file).
Entered == \E k \in DOMAIN log : log[k].op = "readfile"

\* The number of outcomes among transmission failure, checksum-verification
\* failure and input-stage error that were reported.
FailuresReported ==
    Cardinality({m \in {"txFailed", "crcFailed", "notFound", "crcError"} : Printed(m)})

\* Connected, every chunk of the image acknowledged with "ACK", and the
\* final read returned "CRC_OK".
AllAnswersRight ==
    /\ Pos(IsDialOk) # {}
    /\ Len(AckReads) = NumChunks(firmwareSize)
    /\ \A a \in DOMAIN AckReads : AckReads[a].data = ACK_MSG
    /\ \E k \in Pos(IsVerifyRead) : log[k].data = CRC_OK_MSG

\* C3: success is reported exactly when a connection was established, every
\* chunk's read returned "ACK" and the final read returned "CRC_OK"; every
\* other run of sendFirmware that ends reports exactly one of transmission
\* failure, checksum-verification failure and input-stage error, and a run
\* that reports success reports none of them.
C3_SuccessIffAllAnswersRight ==
    /\ Success => AllAnswersRight /\ FailuresReported = 0
    /\ (Terminal /\ Entered) =>
           /\ Success <=> AllAnswersRight
           /\ ~Success => FailuresReported = 1

\* A run of three chunks that ended with success.
C3_Witness ==
    /\ Terminal
    /\ Success
    /\ Len(AckReads) = 3

\* The image's bytes at the offsets of chunk j (counted from 1).
Slice(j) ==
    SubSeq(firmwareData, ((j - 1) * BUFFER_SIZE) + 1, Min(j * BUFFER_SIZE, firmwareSize))

\* C4: the first call on the connection is the write of the 4-byte size
\* header; then come the chunks in ascending offset order, each followed by
\* its read; the checksum is written only when all the chunks of the image
\* were written and each was acknowledged with "ACK"; and no write follows
\* the checksum.
C4_WireOrder ==
    /\ \A k \in Pos(IsDialOk) :
           Len(log) >= k + 2 =>
               /\ log[k + 2].op = "write"
               /\ log[k + 2].tag = "size"
               /\ Len(log[k + 2].data) = 4
    /\ \A k \in DOMAIN log :
           log[k].op \in {"write", "read"} => Pos(IsDialOk) # {} /\ Len(Writes) > 0
    /\ \A w \in DOMAIN Writes :
           /\ (w = 1) <=> (Writes[w].tag = "size")
           /\ Writes[w].tag = "chunk" => Writes[w].data = Slice(w - 1)
           /\ Writes[w].tag = "crc" =>
                  /\ w = Len(Writes)
                  /\ w = NumChunks(firmwareSize) + 2
    /\ \A c \in Pos(IsCrcWrite) :
           /\ Len(SelectSeq(SubSeq(log, 1, c), IsChunkWrite)) = NumChunks(firmwareSize)
           /\ Len(SelectSeq(SubSeq(log, 1, c), IsAckRead)) = NumChunks(firmwareSize)
           /\ \A a \in Pos(IsAckRead) : a < c /\ log[a].data = ACK_MSG
           /\ \A j \in DOMAIN log : j > c => log[j].op # "write"
    /\ \A k \in Pos(IsChunkWrite) :
           Len(log) > k => IsAckRead(log[k + 1])

\* A run that wrote the header, three chunks and the checksum.
C4_Witness ==
    /\ Len(Writes) = 5
    /\ Writes[5].tag = "crc"
    /\ Terminal

\* Whether the chunk loop has finished with every chunk acknowledged.
LoopDone == Pos(IsCrcWrite) # {}

\* C5: chunk j (from 0) carries the image's bytes at offsets
\* [j*C, min((j+1)*C, S)), so every chunk has between 1 and C bytes; when
\* every chunk was acknowledged there are ceil(S/C) chunks, the last has
\* S - C*floor((S-1)/C) bytes if S >= 1, their payloads one after the other
\* are the image, and their lengths add up to S.
C5_ChunksPartitionImage ==
    /\ \A j \in DOMAIN ChunkWrites :
           /\ ChunkWrites[j].data = Slice(j)
           /\ Len(ChunkWrites[j].data) \in 1..BUFFER_SIZE
           /\ ChunkWrites[j].n = Len(ChunkWrites[j].data)
           /\ j < Len(ChunkWrites) => Len(ChunkWrites[j].data) = BUFFER_SIZE
    /\ Len(ChunkWrites) <= NumChunks(firmwareSize)
    /\ LoopDone =>
           /\ Len(ChunkWrites) = NumChunks(firmwareSize)
           /\ Concat(ChunkWrites) = firmwareData
           /\ TotalLen(ChunkWrites) = firmwareSize
           /\ firmwareSize >= 1 =>
                  Len(ChunkWrites[Len(ChunkWrites)].data) =
                      firmwareSize
                          - (BUFFER_SIZE * ((firmwareSize - 1) \div BUFFER_SIZE))

\* The loop finished on an image of two full chunks and one byte.
C5_Witness ==
    /\ LoopDone
    /\ firmwareSize = (2 * BUFFER_SIZE) + 1
    /\ Len(ChunkWrites) = 3
    /\ Len(ChunkWrites[3].data) = 1

\* C6: a connection, once established, is closed exactly once by the time
\* the run ends, whichever way it ends; nothing is read or written after the
\* close; the close happens only on a return of sendFirmware; and no run ends
\* with the connection open.
C6_ClosedOnceOnEveryExit ==
    /\ Cardinality(Pos(IsClose)) <= 1
    /\ \A k \in Pos(IsClose) :
           /\ \E d \in Pos(IsDialOk) : d < k
           /\ \A j \in DOMAIN log : j > k => log[j].op \notin {"read", "write", "dial"}
           /\ conn = "closed"
           /\ Terminal
    /\ conn = "open" <=> (Pos(IsDialOk) # {} /\ Pos(IsClose) = {})
    /\ Terminal => conn # "open"
    /\ (Terminal /\ Pos(IsDialOk) # {}) =>
           /\ Cardinality(Pos(IsClose)) = 1
           /\ TransmissionFailure \/ ChecksumFailure \/ Success

\* A run that ended on a failed acknowledgment with the connection closed.
C6_Witness ==
    /\ Terminal
    /\ TransmissionFailure
    /\ conn = "closed"
    /\ Cardinality(Pos(IsClose)) = 1

\* The connection attempts, in order.
Dials == SelectSeq(log, IsDial)

\* The waits between the attempt at position a of log and the next attempt
\* (or the end of log).
SleepsAfter(a) ==
    {k \in Pos(IsSleep) :
        k > a /\ \A d \in Pos(IsDial) : d > a => k < d}

\* C7: when the first N attempts are refused and the next is accepted there
\* are exactly N + 1 attempts; each refused attempt is followed, before the
\* next attempt, by exactly one wait of 3 seconds (N waits in all, none after
\* the accepted attempt); no attempt follows the accepted one; and the next
\* call after it is the write of the size header.
C7_RetryThenProceed ==
    /\ \A a \in Pos(IsRefusal) :
           /\ (\E d \in Pos(IsDial) : d > a) => Cardinality(SleepsAfter(a)) = 1
           /\ Cardinality(SleepsAfter(a)) <= 1
    /\ \A k \in Pos(IsSleep) :
           /\ log[k].n = 3
           /\ k > 2 /\ IsRefusal(log[k - 2])
    /\ \A a \in Pos(IsDialOk) :
           /\ Len(Dials) = Refused + 1
           /\ Dials[Len(Dials)] = log[a]
           /\ Cardinality(Pos(IsSleep)) = Refused
           /\ \A j \in DOMAIN log : j > a => log[j].op \notin {"dial", "sleep"}
           /\ pc = "writeSize" \/ Len(Writes) > 0
           /\ Len(log) >= a + 2 => (IsWrite(log[a + 2]) /\ log[a + 2].tag = "size")

\* Two refusals, then an accepted attempt and the size header.
C7_Witness ==
    /\ Refused = 2
    /\ Len(Dials) = 3
    /\ Pos(IsDialOk) # {}
    /\ Len(Writes) = 1

\* C8: while no attempt has succeeded the program stays in the connect loop:
\* a refused attempt produces no outcome report and no exit, leaves no
\* connection, and is followed by the 3-second wait and then by another
\* attempt; the loop has no exit of its own (with n refusals so far, the
\* program is at the wait or at attempt n + 1).
C8_ConnectLoopNeverGivesUp ==
    /\ (Pos(IsRefusal) # {} /\ Pos(IsDialOk) = {}) =>
           /\ pc \in {"dial", "sleep"}
           /\ ~Terminal
           /\ ~(Success \/ TransmissionFailure \/ ChecksumFailure \/ InputStageError)
           /\ Pos(LAMBDA e : e.op = "exit") = {}
           /\ conn = "nil"
           /\ pc = "dial" <=> Cardinality(Pos(IsSleep)) = Refused
           /\ pc = "sleep" <=> Cardinality(Pos(IsSleep)) = Refused - 1
    /\ \A a \in Pos(IsRefusal) :
           /\ Len(log) >= a + 1 /\ log[a + 1] = Say("connFailed")
           /\ Len(log) >= a + 2 => IsSleep(log[a + 2])
           /\ Len(log) >= a + 3 => IsDial(log[a + 3])

\* Every attempt so far was refused and the next attempt is about to be made.
C8_Witness ==
    /\ Refused = 2
    /\ Pos(IsDialOk) = {}
    /\ pc = "dial"

\* C9: when the load of the file fails or the checksum computation returns
\* an error, sendFirmware returns with that report and without any connection
\* attempt or write; and a connection attempt is made only after the load
\* succeeded and calculateCRC32 returned its value.
C9_InputErrorsBeforeNetwork ==
    /\ InputStageError =>
           /\ Pos(IsNetwork) = {}
           /\ Pos(IsSleep) = {}
           /\ conn = "nil"
           /\ pc \in {"return", "exit"}
           /\ ~(Success \/ TransmissionFailure \/ ChecksumFailure)
    /\ (Entered /\ ~fs.exists) => Printed("notFound")
    /\ \A k \in Pos(LAMBDA e : e.op \in {"open", "fread"} /\ e.tag = "err") :
           Len(log) > k /\ Printed("crcError")
    /\ \A d \in Pos(IsNetwork) :
           /\ \E r \in DOMAIN log :
                  r < d /\ log[r].op = "readfile" /\ log[r].tag = "ok"
           /\ \E c \in DOMAIN log :
                  c < d /\ log[c].op = "fread" /\ log[c].tag = "EOF"

\* A run that ended on a read error in the middle of the checksum's file.
C9_Witness ==
    /\ Terminal
    /\ Printed("crcError")
    /\ \E k \in DOMAIN log : log[k].op = "fread" /\ log[k].tag = "ok"
    /\ \E k \in DOMAIN log : log[k].op = "fread" /\ log[k].tag = "err"

\* ---- the dotted-quad syntax, stated without the regexp

\* The fields of s between its dots.
RECURSIVE SplitDots(_)
SplitDots(s) ==
    IF \A k \in DOMAIN s : s[k] # "." THEN <<s>>
    ELSE LET d == CHOOSE k \in DOMAIN s : s[k] = "." /\ \A j \in 1..(k - 1) : s[j] # "."
         IN  <<SubSeq(s, 1, d - 1)>> \o SplitDots(SubSeq(s, d + 1, Len(s)))

DigitValue(c) == CHOOSE d \in 0..9 : DigitChar[d + 1] = c

RECURSIVE FieldValue(_)
FieldValue(f) ==
    IF Len(f) = 0 THEN 0
    ELSE (10 * FieldValue(SubSeq(f, 1, Len(f) - 1))) + DigitValue(f[Len(f)])

\* One to three decimal digits with a value in 0..255.
IsDecOctet(f) ==
    /\ Len(f) \in 1..3
    /\ \A k \in DOMAIN f : f[k] \in Digits
    /\ FieldValue(f) <= 255

\* Four dot-separated fields, each a decimal octet.
IsDottedQuad(s) ==
    LET fields == SplitDots(s)
    IN  Len(fields) = 4 /\ \A k \in 1..4 : IsDecOctet(fields[k])

\* A run of the 1.2.0 program that was given a file and an address.
HasAddress ==
    variant = "1.2.0" /\ args.argc >= 3 /\ args.arg1 \notin {"version", "-v"}

\* C10: in the program that takes an address, once main has looked at its
\* arguments: an address that is not a dotted quad is rejected with exit
\* status 1 and nothing else happens (no file read, no checksum, no
\* connection attempt: the report and the exit are the only effects); a
\* dotted quad is never rejected, and sendFirmware is entered with it.
C10_AddressValidatedFirst ==
    (HasAddress /\ pc # "main") =>
        IF IsDottedQuad(args.arg2)
        THEN /\ ~Printed("invalidIP")
             /\ serverIP = args.arg2
             /\ pc = "readFile" \/ Entered
        ELSE /\ log = <<Say("invalidIP"), Ev("exit", "os.Exit", 1, <<>>)>>
             /\ Terminal
             /\ exitCode = 1
             /\ ~Entered
             /\ conn = "nil"

\* The address 999.1.1.1 was rejected.
C10_Witness ==
    /\ HasAddress
    /\ args.arg2 = Join(<<Dec(999), Dec(1), Dec(1), Dec(1)>>)
    /\ Terminal
    /\ exitCode = 1

\* An input error was reported: the usage text, the address error or the
\* file error.
InputErrorReported ==
    Printed("usage") \/ Printed("invalidIP") \/ Printed("notFound")

\* C11: every input error (missing arguments, malformed address, missing or
\* unreadable firmware file) is reported before any use of the network and
\* makes the process exit with a non-zero status.
C11_InputErrorsExitNonZero ==
    InputErrorReported =>
        /\ Pos(IsNetwork) = {}
        /\ Terminal => exitCode # 0

IsSizeWrite(e) == e.op = "write" /\ e.tag = "size"

RECURSIVE RefShift(_, _)
RefShift(c, n) ==
    IF n = 0 THEN c
    ELSE RefShift(IF c[2] % 2 = 1
                  THEN Xor32(Shr1(c), <<60856, 33568>>) ELSE Shr1(c), n - 1)

RECURSIVE RefRegister(_, _)
RefRegister(p, k) ==
    IF k = 0 THEN <<65535, 65535>>
    ELSE LET c == RefRegister(p, k - 1)
         IN  RefShift(<<c[1], Xor(c[2], p[k])>>, 8)

\* The CRC-32 of p: register of all ones, reflected polynomial 0xEDB88320,
\* final complement.
RefCRC32(p) ==
    LET c == RefRegister(p, Len(p)) IN <<65535 - c[1], 65535 - c[2]>>

\* C13: whatever sizes the reads of calculateCRC32 have (1 to 256 bytes, the
\* last possibly delivered together with end-of-stream), the digest after
\* reading a prefix of the file is the checksum of that prefix fed in one
\* piece, and the value returned is the checksum of the whole content in one
\* piece, which is its CRC-32 (0 for the empty file).
C13_ChecksumIndependentOfReads ==
    /\ pc = "crcRead" => hash = ChecksumIEEE(SubSeq(fs.data, 1, fpos))
    /\ Printed("computed") =>
           /\ firmwareCRC32 = ChecksumIEEE(fs.data)
           /\ Len(fs.data) <= MaxFileLen => firmwareCRC32 = RefCRC32(fs.data)
           /\ Len(fs.data) = 0 => firmwareCRC32 = <<0, 0>>

\* The 257-byte file was read to its end with a last read of three bytes
\* that came with end-of-stream; offset 254 is reached by short reads only.
C13_Witness ==
    /\ Printed("computed")
    /\ Len(fs.data) = BUFFER_SIZE + 1
    /\ \E k \in DOMAIN log :
           log[k].op = "fread" /\ log[k].tag = "EOF" /\ log[k].n = 3

\* The acknowledgment reads that returned exactly "ACK".
AcceptedAcks == SelectSeq(AckReads, LAMBDA e : e.data = ACK_MSG)

\* C14: the chunk loop is stop-and-wait: between two chunk writes that follow
\* each other there is exactly one acknowledgment read and it returned
\* "ACK"; so at most one written chunk has no read yet, and the chunks
\* written exceed the "ACK" tokens accepted by at most 1.
C14_StopAndWait ==
    /\ \A p \in Pos(IsChunkWrite), q \in Pos(IsChunkWrite) :
           (p < q /\ \A m \in Pos(IsChunkWrite) : ~(p < m /\ m < q)) =>
               /\ Cardinality({a \in Pos(IsAckRead) : p < a /\ a < q}) = 1
               /\ \A a \in Pos(IsAckRead) : (p < a /\ a < q) => log[a].data = ACK_MSG
    /\ Len(ChunkWrites) - Len(AckReads) \in {0, 1}
    /\ Len(ChunkWrites) - Len(AcceptedAcks) \in {0, 1}
    /\ pc = "readAck" <=> Len(ChunkWrites) = Len(AckReads) + 1
    /\ pc = "loop" => Len(ChunkWrites) = Len(AcceptedAcks)

\* The third chunk is written and waits for its acknowledgment; two were
\* acknowledged.
C14_Witness ==
    /\ pc = "readAck"
    /\ Len(ChunkWrites) = 3
    /\ Len(AcceptedAcks) = 2

VerifyReads == SelectSeq(log, IsVerifyRead)

\* The inbound bytes at the offsets [from, from + n), as far as they came.
InboundAt(from, n) == SubSeq(inbound, from + 1, Min(from + n, Len(inbound)))

\* n times "ACK", then "CRC_OK".
RECURSIVE ExpectedInbound(_)
ExpectedInbound(n) ==
    IF n = 0 THEN CRC_OK_MSG ELSE ACK_MSG \o ExpectedInbound(n - 1)

\* C15: of the inbound stream the program consumes 3 bytes per chunk written
\* and 6 after the checksum, in order and never more: the read for chunk a
\* (counted from 1) returns the inbound bytes at offsets [3(a-1), 3a) and the
\* final read those at [3n, 3n+6) for n chunks; so a run that ends connected
\* reports success exactly when the inbound stream starts with n times "ACK"
\* followed by "CRC_OK", and a byte too many or too few before that point is
\* met by a failed comparison, not skipped.
C15_InboundOffsets ==
    /\ rpos <= Len(inbound)
    /\ rpos <= (Len(ACK_MSG) * Len(ChunkWrites)) + (Len(CRC_OK_MSG) * Len(VerifyReads))
    /\ rpos = TotalLen(AckReads) + TotalLen(VerifyReads)
    /\ \A a \in DOMAIN AckReads :
           AckReads[a].data = InboundAt(Len(ACK_MSG) * (a - 1), Len(ACK_MSG))
    /\ \A v \in DOMAIN VerifyReads :
           /\ Len(AckReads) = NumChunks(firmwareSize)
           /\ VerifyReads[v].data =
                  InboundAt(Len(ACK_MSG) * NumChunks(firmwareSize), Len(CRC_OK_MSG))
    /\ Success => rpos = (Len(ACK_MSG) * NumChunks(firmwareSize)) + Len(CRC_OK_MSG)
    /\ (Terminal /\ Pos(IsDialOk) # {}) =>
           (Success <=>
               InboundAt(0, (Len(ACK_MSG) * NumChunks(firmwareSize)) + Len(CRC_OK_MSG))
                   = ExpectedInbound(NumChunks(firmwareSize)))

\* The peer sent "ACKX" for the first chunk and "ACK" for the second: the
\* second read returned "XAC" and the run ended with a transmission failure.
C15_Witness ==
    /\ Terminal
    /\ TransmissionFailure
    /\ inbound = <<65, 67, 75, 88, 65, 67, 75>>
    /\ Len(AckReads) = 2
    /\ AckReads[2].data = <<88, 65, 67>>
    /\ rpos = 6

\* The chunk writes whose read returned "ACK": the first ones, one per
\* accepted token.
AcknowledgedChunks == SubSeq(ChunkWrites, 1, Len(AcceptedAcks))

\* What C16 says of one state.
ProgressCountRight ==
    /\ sentBytes = TotalLen(AcknowledgedChunks)
    /\ sentBytes <= firmwareSize
    /\ pc \in {"loop", "readAck"} => sentBytes = Min(i, firmwareSize)
    /\ LoopDone => sentBytes = firmwareSize
    /\ Pos(IsWrite) = {} => sentBytes = 0

\* C16: sentBytes never decreases; it changes only in the step in which an
\* acknowledgment read returns "ACK", and then by the length of the chunk
\* that was acknowledged; it equals the sum of the lengths of the
\* acknowledged chunks, which in the loop is the offset of the next chunk not
\* yet acknowledged; it never exceeds the image size and equals it when the
\* checksum is written.
C16_ProgressCount ==
    [][ /\ sentBytes' >= sentBytes
        /\ sentBytes' # sentBytes =>
               /\ pc = "readAck"
               /\ Len(log') = Len(log) + 1
               /\ IsAckRead(log'[Len(log')])
               /\ log'[Len(log')].data = ACK_MSG
               /\ sentBytes' = sentBytes + Len(ChunkWrites[Len(ChunkWrites)].data)
        /\ ProgressCountRight' ]_vars

\* The checksum of a 513-byte image is written: the count went 256, 512, 513.
C16_Witness ==
    /\ LoopDone
    /\ sentBytes = (2 * BUFFER_SIZE) + 1
    /\ TotalLen(AcknowledgedChunks) = (2 * BUFFER_SIZE) + 1
    /\ Len(AcceptedAcks) = 3

\* A transfer outcome was reported: success, checksum-verification failure
\* or transmission failure.
TransferOutcome == Success \/ ChecksumFailure \/ TransmissionFailure

EmptyImageLoaded ==
    \E k \in DOMAIN log : log[k].op = "readfile" /\ log[k].tag = "ok" /\ log[k].n = 0

\* C18: with an empty image the size header is four zero bytes, no chunk is
\* written and no acknowledgment read; the write that follows the header is
\* the checksum, and the call on the connection after it is the read of the
\* verification token; a connected run ends with success or
\* checksum-verification failure, never transmission failure.
C18_EmptyImage ==
    EmptyImageLoaded =>
        /\ firmwareSize = 0
        /\ Pos(IsChunkWrite) = {}
        /\ Pos(IsAckRead) = {}
        /\ ~TransmissionFailure
        /\ Len(Writes) <= 2
        /\ \A k \in Pos(IsSizeWrite) :
               /\ log[k].data = <<0, 0, 0, 0>>
               /\ Len(log) > k => IsCrcWrite(log[k + 1])
        /\ \A c \in Pos(IsCrcWrite) :
               /\ Pos(IsSizeWrite) # {}
               /\ Len(log) > c + 1 => IsVerifyRead(log[c + 2])
               /\ Len(log) <= c + 1 => pc = "readVerify"
        /\ (Terminal /\ Pos(IsDialOk) # {}) =>
               /\ Len(Writes) = 2
               /\ Len(VerifyReads) = 1
               /\ Success \/ ChecksumFailure

\* A run with an empty image that ended with success.
C18_Witness ==
    /\ EmptyImageLoaded
    /\ Terminal
    /\ Success
    /\ Writes[1].data = <<0, 0, 0, 0>>
    /\ Writes[2].tag = "crc"

\* C19: the four bytes written as the checksum are the big-endian CRC-32 of
\* the bytes written as chunk payloads, also when the file is rewritten
\* between os.ReadFile and the re-read in calculateCRC32.
C19_ChecksumOfBytesSent ==
    \A c \in Pos(IsCrcWrite) :
        log[c].data = PutUint32(ChecksumIEEE(Concat(ChunkWrites)))

\* The writes that did not complete: Write returned fewer bytes than it was
\* given, and an error.
FailedWrites == SelectSeq(Writes, LAMBDA e : e.n < Len(e.data))

\* C20: when success is reported, the write of the size header, of every
\* chunk and of the checksum each completed without error.
C20_SuccessMeansWritesCompleted ==
    Success => Len(FailedWrites) = 0

====
